---- MODULE Spec2Model ----
(***************************************************************************)
(* AnyDictionary and its MutationStamp (src/opentimelineio/                *)
(* anyDictionary.h): a std::map<std::string, any> that bumps a side        *)
(* record, the mutation stamp, on every iterator-invalidating operation    *)
(* and tombstones it on destruction.  Objects live in a small heap of      *)
(* numbered slots; a pointer is a slot number, Null is the null pointer.   *)
(***************************************************************************)
EXTENDS Integers, FiniteSets, Sequences, TLC

\* ------------------------------------------------------------- bounds
NumDicts  == 2    \* AnyDictionary slots of the heap
NumStamps == 2    \* MutationStamp slots of the heap
NumKeys   == 1    \* distinct keys, ordered as std::string keys are
MaxStamp  == 3    \* cap on the int64_t counter (guards of the bumping calls)

Null   == 0
Dicts  == 1..NumDicts
Stamps == 1..NumStamps
Keys   == 1..NumKeys

\* any: an opaque payload with a queryable concrete type
IntVal(n) == [type |-> "int", val |-> n]
StrVal    == [type |-> "string", val |-> 1]
Values    == {IntVal(1), IntVal(2), StrVal}
NoValue   == [type |-> "none", val |-> 0]
NullOut   == [type |-> "nullptr", val |-> 0]

\* the payload the stamp protocol is exercised with
StampValues == {IntVal(1)}

\* std::map<std::string, any>: a function from the keys present to values
EmptyMap == [k \in {} |-> NoValue]

VARIABLES
    dictLive,          \* dictLive[d]: slot d holds a constructed AnyDictionary
    _mutation_stamp,   \* AnyDictionary::_mutation_stamp (a stamp slot or Null)
    contents,          \* the std::map base of each dictionary
    stampLive,         \* stampLive[s]: slot s holds a constructed MutationStamp
    stamp,             \* MutationStamp::stamp, the counter
    any_dictionary,    \* MutationStamp::any_dictionary (a dict slot or Null)
    owning,            \* MutationStamp::owning
    seen,              \* the version the external handle of stamp s cached (0: none)
    dirty,             \* history: the watched dictionary was invalidated or
                       \* destroyed since the handle of stamp s cached `seen`
    ub,                \* a destroyed object was dereferenced
    last               \* the call that produced this state, with its results

vars == <<dictLive, _mutation_stamp, contents, stampLive, stamp, any_dictionary,
          owning, seen, dirty, ub, last>>

dictVars   == <<dictLive, _mutation_stamp, contents>>
stampVars  == <<stampLive, stamp, any_dictionary, owning>>
handleVars == <<seen, dirty>>

\* op: the member called; a: the dictionary it ran on; b: its other operand;
\* key: its key argument; ret: the value returned (a count or a flag);
\* out: the caller's value slot afterwards; s: the stamp concerned;
\* arg: the caller's value slot before the call
Call(op, a, b, key, ret, out, s) ==
    [op |-> op, a |-> a, b |-> b, key |-> key, ret |-> ret, out |-> out, s |-> s,
     arg |-> NoValue]

\* a call of a member that takes a pointer to the caller's value slot
CallV(op, a, key, ret, out, arg) ==
    [op |-> op, a |-> a, b |-> Null, key |-> key, ret |-> ret, out |-> out,
     s |-> Null, arg |-> arg]

Init ==
    /\ dictLive = [d \in Dicts |-> d = 1]
    /\ _mutation_stamp = [d \in Dicts |-> Null]
    /\ contents = [d \in Dicts |-> EmptyMap]
    /\ stampLive = [s \in Stamps |-> FALSE]
    /\ stamp = [s \in Stamps |-> 0]
    /\ any_dictionary = [s \in Stamps |-> Null]
    /\ owning = [s \in Stamps |-> FALSE]
    /\ seen = [s \in Stamps |-> 0]
    /\ dirty = [s \in Stamps |-> FALSE]
    /\ ub = FALSE
    /\ last = Call("AnyDictionary", 1, Null, 0, 0, NoValue, Null)

\* ------------------------------------------------------ std::map base
map_erase(m, ks) == [x \in (DOMAIN m) \ ks |-> m[x]]

\* map::insert / map::emplace: no effect when the key is already present
map_insert(m, k, v) ==
    IF k \in DOMAIN m THEN m
    ELSE [x \in (DOMAIN m) \cup {k} |-> IF x = k THEN v ELSE m[x]]

\* map::operator[] followed by an assignment through the reference
map_put(m, k, v) == [x \in (DOMAIN m) \cup {k} |-> IF x = k THEN v ELSE m[x]]

\* position of a key in iteration order (the key's total order)
Rank(m, k) == Cardinality({x \in DOMAIN m : x < k})

\* the keys in the iterator range [first, last)
KeysInRange(m, first, lst) ==
    {k \in DOMAIN m : first <= Rank(m, k) /\ Rank(m, k) < lst}

\* ------------------------------------------------------------ helpers
FreeDicts  == {d \in Dicts : ~dictLive[d]}
FreeStamps == {s \in Stamps : ~stampLive[s]}

\* _mutation_stamp of d is non-null and points at a destroyed stamp
DanglingStamp(d) == _mutation_stamp[d] # Null /\ ~stampLive[_mutation_stamp[d]]
\* any_dictionary of s is non-null and points at a destroyed dictionary
DanglingDict(s)  == any_dictionary[s] # Null /\ ~dictLive[any_dictionary[s]]

\* the outcome of dereferencing a destroyed object
Fault(c) ==
    /\ ub' = TRUE
    /\ last' = c
    /\ UNCHANGED <<dictVars, stampVars, handleVars>>

mutate_skip(st, d) == st

\* AnyDictionary::mutate applied to the counters st
mutate(st, d) ==
    IF _mutation_stamp[d] # Null
    THEN [st EXCEPT ![_mutation_stamp[d]] = @ + 1]
    ELSE st

\* the counters stay within the modelled range
InRange(st) == \A s \in Stamps : st[s] <= MaxStamp

\* history: the stamps watching the dictionaries ds, whose handle holds a
\* cached version, saw an invalidation
Invalidated(ds) ==
    [s \in Stamps |->
        dirty[s] \/ (seen[s] # 0 /\ \E d \in ds : _mutation_stamp[d] = s)]

\* ----------------------------------------- construction / destruction
\* AnyDictionary()
Construct(d) ==
    /\ ~ub /\ d \in FreeDicts
    /\ dictLive' = [dictLive EXCEPT ![d] = TRUE]
    /\ _mutation_stamp' = [_mutation_stamp EXCEPT ![d] = Null]
    /\ contents' = [contents EXCEPT ![d] = EmptyMap]
    /\ last' = Call("AnyDictionary", d, Null, 0, 0, NoValue, Null)
    /\ UNCHANGED <<stampVars, handleVars, ub>>

CopyConstructAs_carry(op, d, other) ==
    /\ ~ub /\ d \in FreeDicts /\ dictLive[other]
    /\ dictLive' = [dictLive EXCEPT ![d] = TRUE]
    /\ _mutation_stamp' = [_mutation_stamp EXCEPT ![d] = _mutation_stamp[other]]
    /\ contents' = [contents EXCEPT ![d] = contents[other]]
    /\ last' = Call(op, d, other, 0, 0, NoValue, Null)
    /\ UNCHANGED <<stampVars, handleVars, ub>>

\* AnyDictionary(const AnyDictionary& other); op tells how the call was
\* written: the class declares no move constructor, so construction from
\* an rvalue selects this constructor too
CopyConstructAs(op, d, other) ==
    /\ ~ub /\ d \in FreeDicts /\ dictLive[other]
    /\ dictLive' = [dictLive EXCEPT ![d] = TRUE]
    /\ _mutation_stamp' = [_mutation_stamp EXCEPT ![d] = Null]
    /\ contents' = [contents EXCEPT ![d] = contents[other]]
    /\ last' = Call(op, d, other, 0, 0, NoValue, Null)
    /\ UNCHANGED <<stampVars, handleVars, ub>>

CopyConstruct(d, other) == CopyConstructAs("copy_construct", d, other)
MoveConstruct(d, other) == CopyConstructAs("move_construct", d, other)

dtor_stamp_keep(d) == stamp

dtor_any_dictionary_keep(d) == any_dictionary

\* the counter and the back-reference ~AnyDictionary leaves in the stamps
dtor_stamp(d) ==
    IF _mutation_stamp[d] # Null
    THEN [stamp EXCEPT ![_mutation_stamp[d]] = -1]
    ELSE stamp

dtor_any_dictionary(d) ==
    IF _mutation_stamp[d] # Null
    THEN [any_dictionary EXCEPT ![_mutation_stamp[d]] = Null]
    ELSE any_dictionary

\* the storage of a destroyed dictionary is released
Released(d) ==
    /\ dictLive' = [dictLive EXCEPT ![d] = FALSE]
    /\ _mutation_stamp' = [_mutation_stamp EXCEPT ![d] = Null]
    /\ contents' = [contents EXCEPT ![d] = EmptyMap]

\* ~AnyDictionary, run by the dictionary's owner (a dictionary allocated
\* by an owning stamp is deleted by that stamp only)
Destroy(d) ==
    /\ ~ub /\ dictLive[d]
    /\ ~(\E s \in Stamps : stampLive[s] /\ owning[s] /\ any_dictionary[s] = d)
    /\ IF DanglingStamp(d)
       THEN Fault(Call("~AnyDictionary", d, Null, 0, 0, NoValue, _mutation_stamp[d]))
       ELSE /\ stamp' = dtor_stamp(d)
            /\ any_dictionary' = dtor_any_dictionary(d)
            /\ Released(d)
            /\ dirty' = Invalidated({d})
            /\ last' = Call("~AnyDictionary", d, Null, 0, 0, NoValue, _mutation_stamp[d])
            /\ UNCHANGED <<stampLive, owning, seen, ub>>

\* ------------------------------------------- invalidating operations
\* what every invalidating member does around its change of the map:
\* ds are the dictionaries whose mutate() runs, st the counters after them
Invalidating(c, ds, st, newContents) ==
    /\ ~ub /\ InRange(st)
    /\ IF \E d \in ds : DanglingStamp(d)
       THEN Fault(c)
       ELSE /\ stamp' = st
            /\ contents' = newContents
            /\ dirty' = Invalidated(ds)
            /\ last' = c
            /\ UNCHANGED <<dictLive, _mutation_stamp, stampLive, any_dictionary,
                           owning, seen, ub>>

\* operator=(const AnyDictionary& other)
CopyAssign(a, other) ==
    /\ dictLive[a] /\ dictLive[other]
    /\ Invalidating(Call("copy_assign", a, other, 0, 0, NoValue, Null), {a},
                    mutate(stamp, a),
                    [contents EXCEPT ![a] = contents[other]])

MoveAssign_noOtherMutate(a, other) ==
    /\ dictLive[a] /\ dictLive[other]
    /\ Invalidating(Call("move_assign", a, other, 0, 0, NoValue, Null), {a},
                    mutate(stamp, a),
                    [contents EXCEPT ![a] = contents[other]])

MoveAssign_realMove(a, other) ==
    /\ dictLive[a] /\ dictLive[other]
    /\ Invalidating(Call("move_assign", a, other, 0, 0, NoValue, Null), {a, other},
                    mutate(mutate(stamp, a), other),
                    [contents EXCEPT ![other] = EmptyMap, ![a] = contents[other]])

\* operator=(AnyDictionary&& other): other is a named reference, so
\* map::operator=(other) is the copy assignment of the base
MoveAssign(a, other) ==
    /\ dictLive[a] /\ dictLive[other]
    /\ Invalidating(Call("move_assign", a, other, 0, 0, NoValue, Null), {a, other},
                    mutate(mutate(stamp, a), other),
                    [contents EXCEPT ![a] = contents[other]])

\* operator=(std::initializer_list<value_type> ilist)
InitListAssign(a, ilist) ==
    /\ dictLive[a]
    /\ Invalidating(Call("ilist_assign", a, Null, 0, 0, NoValue, Null), {a},
                    mutate(stamp, a),
                    [contents EXCEPT ![a] = ilist])

\* clear()
Clear(a) ==
    /\ dictLive[a]
    /\ Invalidating(Call("clear", a, Null, 0, 0, NoValue, Null), {a},
                    mutate(stamp, a),
                    [contents EXCEPT ![a] = EmptyMap])

\* erase(const key_type& key): returns the number of elements removed
EraseKey(a, key) ==
    /\ dictLive[a]
    /\ Invalidating(Call("erase_key", a, Null, key,
                         IF key \in DOMAIN contents[a] THEN 1 ELSE 0, NoValue, Null),
                    {a}, mutate(stamp, a),
                    [contents EXCEPT ![a] = map_erase(@, {key})])

\* erase(const_iterator pos): pos is dereferenceable, it names a present key
ErasePos(a, key) ==
    /\ dictLive[a] /\ key \in DOMAIN contents[a]
    /\ Invalidating(Call("erase_pos", a, Null, key, 0, NoValue, Null), {a},
                    mutate(stamp, a),
                    [contents EXCEPT ![a] = map_erase(@, {key})])

\* erase(const_iterator first, const_iterator last): a valid range of a
EraseRange(a, first, lst) ==
    /\ dictLive[a]
    /\ first <= lst /\ lst <= Cardinality(DOMAIN contents[a])
    /\ Invalidating(Call("erase_range", a, Null, first, lst, NoValue, Null), {a},
                    mutate(stamp, a),
                    [contents EXCEPT
                       ![a] = map_erase(@, KeysInRange(@, first, lst))])

Swap_exchange(a, other) ==
    /\ dictLive[a] /\ dictLive[other]
    /\ ~ub /\ InRange(mutate(mutate(stamp, a), other))
    /\ ~DanglingStamp(a) /\ ~DanglingStamp(other)
    /\ stamp' = mutate(mutate(stamp, a), other)
    /\ contents' = [contents EXCEPT ![a] = contents[other],
                                    ![other] = contents[a]]
    /\ _mutation_stamp' = [_mutation_stamp EXCEPT ![a] = _mutation_stamp[other],
                                                  ![other] = _mutation_stamp[a]]
    /\ any_dictionary' =
         [s \in Stamps |->
            IF s = _mutation_stamp[a] THEN other
            ELSE IF s = _mutation_stamp[other] THEN a
            ELSE any_dictionary[s]]
    /\ dirty' = Invalidated({a, other})
    /\ last' = Call("swap", a, other, 0, 0, NoValue, Null)
    /\ UNCHANGED <<dictLive, stampLive, owning, seen, ub>>

\* swap(AnyDictionary& other): map::swap exchanges the contents only
Swap(a, other) ==
    /\ dictLive[a] /\ dictLive[other]
    /\ Invalidating(Call("swap", a, other, 0, 0, NoValue, Null), {a, other},
                    mutate(mutate(stamp, a), other),
                    [contents EXCEPT ![a] = contents[other],
                                     ![other] = contents[a]])

\* --------------------------------------- non-invalidating operations
NonInvalidating_bump(c, newContents) ==
    /\ ~ub /\ InRange(mutate(stamp, c.a))
    /\ contents' = newContents
    /\ stamp' = mutate(stamp, c.a)
    /\ last' = c
    /\ UNCHANGED <<dictLive, _mutation_stamp, stampLive, any_dictionary, owning,
                   handleVars, ub>>

\* a member inherited from std::map by a using-declaration, or one of the
\* convenience members: no mutate() runs, the stamps are not touched
NonInvalidating(c, newContents) ==
    /\ ~ub
    /\ contents' = newContents
    /\ last' = c
    /\ UNCHANGED <<dictLive, _mutation_stamp, stampVars, handleVars, ub>>

\* using map::insert / map::emplace / map::emplace_hint: ret tells whether
\* the element was inserted
Insert(a, key, v) ==
    /\ dictLive[a]
    /\ NonInvalidating(Call("insert", a, Null, key,
                            IF key \in DOMAIN contents[a] THEN 0 ELSE 1, v, Null),
                       [contents EXCEPT ![a] = map_insert(@, key, v)])

\* using map::operator[]: d[key] = v
IndexAssign(a, key, v) ==
    /\ dictLive[a]
    /\ NonInvalidating(Call("operator[]", a, Null, key, 0, v, Null),
                       [contents EXCEPT ![a] = map_put(@, key, v)])

\* using map::find / count / at / lower_bound / upper_bound / equal_range /
\* begin / end, and has_key: ret tells whether the key is present
Find(a, key) ==
    /\ dictLive[a]
    /\ NonInvalidating(Call("find", a, Null, key,
                            IF key \in DOMAIN contents[a] THEN 1 ELSE 0,
                            IF key \in DOMAIN contents[a]
                            THEN contents[a][key] ELSE NoValue, Null),
                       contents)

FoundWithType_anyType(m, key, result) == key \in DOMAIN m

\* the test of get_if_set and set_default: the key is present and the
\* stored value has the type of the caller's slot
FoundWithType(m, key, result) ==
    key \in DOMAIN m /\ m[key].type = result.type

\* get_if_set(key, result): result is the caller's slot (NullOut: a null
\* pointer); ret is the value returned, out the slot afterwards
get_if_set(a, key, result) ==
    /\ dictLive[a]
    /\ NonInvalidating(
         IF result = NullOut
         THEN CallV("get_if_set", a, key, 0, NullOut, result)
         ELSE IF FoundWithType(contents[a], key, result)
              THEN CallV("get_if_set", a, key, 1, contents[a][key], result)
              ELSE CallV("get_if_set", a, key, 0, result, result),
         contents)

set_default_overwrite(a, key, result) ==
    /\ dictLive[a]
    /\ IF result = NullOut
       THEN NonInvalidating(CallV("set_default", a, key, 0, NullOut, result),
                            contents)
       ELSE NonInvalidating(CallV("set_default", a, key, 0, result, result),
                            [contents EXCEPT ![a] = map_put(@, key, result)])

set_default_noNullCheck(a, key, result) ==
    /\ dictLive[a]
    /\ IF FoundWithType(contents[a], key, result)
       THEN NonInvalidating(
              CallV("set_default", a, key, 1, contents[a][key], result),
              contents)
       ELSE NonInvalidating(
              CallV("set_default", a, key, 0, result, result),
              [contents EXCEPT ![a] = map_insert(@, key, result)])

\* set_default(key, result)
set_default(a, key, result) ==
    /\ dictLive[a]
    /\ IF result = NullOut
       THEN NonInvalidating(CallV("set_default", a, key, 0, NullOut, result),
                            contents)
       ELSE IF FoundWithType(contents[a], key, result)
            THEN NonInvalidating(
                   CallV("set_default", a, key, 1, contents[a][key], result),
                   contents)
            ELSE NonInvalidating(
                   CallV("set_default", a, key, 0, result, result),
                   [contents EXCEPT ![a] = map_insert(@, key, result)])

\* ------------------------------------------------------ MutationStamp
\* new MutationStamp(this), stored in _mutation_stamp: stamp 1,
\* any_dictionary this, owning false
CreateAttached(a, s) ==
    /\ s \in FreeStamps
    /\ stampLive' = [stampLive EXCEPT ![s] = TRUE]
    /\ stamp' = [stamp EXCEPT ![s] = 1]
    /\ any_dictionary' = [any_dictionary EXCEPT ![s] = a]
    /\ owning' = [owning EXCEPT ![s] = FALSE]
    /\ _mutation_stamp' = [_mutation_stamp EXCEPT ![a] = s]
    /\ seen' = [seen EXCEPT ![s] = 0]
    /\ dirty' = [dirty EXCEPT ![s] = FALSE]
    /\ last' = Call("get_or_create_mutation_stamp", a, Null, 0, 1, NoValue, s)
    /\ UNCHANGED <<dictLive, contents, ub>>

\* the body of get_or_create_mutation_stamp(): s is the stamp returned,
\* ret tells whether it was created by this call
GetOrCreate_always(a, s) == CreateAttached(a, s)

GetOrCreate(a, s) ==
    IF _mutation_stamp[a] # Null
    THEN /\ s = _mutation_stamp[a]
         /\ last' = Call("get_or_create_mutation_stamp", a, Null, 0, 0, NoValue, s)
         /\ UNCHANGED <<dictVars, stampVars, handleVars, ub>>
    ELSE CreateAttached(a, s)

get_or_create_mutation_stamp(a, s) ==
    /\ ~ub /\ dictLive[a]
    /\ GetOrCreate(a, s)

OwningStamp_notOwning(s, d) ==
    /\ ~ub /\ s \in FreeStamps /\ d \in FreeDicts
    /\ stampLive' = [stampLive EXCEPT ![s] = TRUE]
    /\ stamp' = [stamp EXCEPT ![s] = 1]
    /\ any_dictionary' = [any_dictionary EXCEPT ![s] = d]
    /\ owning' = [owning EXCEPT ![s] = FALSE]
    /\ dictLive' = [dictLive EXCEPT ![d] = TRUE]
    /\ contents' = [contents EXCEPT ![d] = EmptyMap]
    /\ _mutation_stamp' = [_mutation_stamp EXCEPT ![d] = s]
    /\ seen' = [seen EXCEPT ![s] = 0]
    /\ dirty' = [dirty EXCEPT ![s] = FALSE]
    /\ last' = Call("MutationStamp", d, Null, 0, 0, NoValue, s)
    /\ UNCHANGED ub

\* MutationStamp(): the protected constructor of a stamp that allocates
\* and owns its dictionary (new AnyDictionary)
OwningStamp(s, d) ==
    /\ ~ub /\ s \in FreeStamps /\ d \in FreeDicts
    /\ stampLive' = [stampLive EXCEPT ![s] = TRUE]
    /\ stamp' = [stamp EXCEPT ![s] = 1]
    /\ any_dictionary' = [any_dictionary EXCEPT ![s] = d]
    /\ owning' = [owning EXCEPT ![s] = TRUE]
    /\ dictLive' = [dictLive EXCEPT ![d] = TRUE]
    /\ contents' = [contents EXCEPT ![d] = EmptyMap]
    /\ _mutation_stamp' = [_mutation_stamp EXCEPT ![d] = s]
    /\ seen' = [seen EXCEPT ![s] = 0]
    /\ dirty' = [dirty EXCEPT ![s] = FALSE]
    /\ last' = Call("MutationStamp", d, Null, 0, 0, NoValue, s)
    /\ UNCHANGED ub

stamp_dtor_mutation_stamp_keep(s) == _mutation_stamp

\* the dictionaries' stamp pointers after ~MutationStamp of s
stamp_dtor_mutation_stamp(s) ==
    IF any_dictionary[s] # Null
    THEN [_mutation_stamp EXCEPT ![any_dictionary[s]] = Null]
    ELSE _mutation_stamp

stamp_dtor_deletes_always(s) == any_dictionary[s] # Null

\* ~MutationStamp runs delete any_dictionary
stamp_dtor_deletes(s) == any_dictionary[s] # Null /\ owning[s]

\* ~MutationStamp: the stamp's storage is released with it; an owning
\* stamp deletes its dictionary (ret = 1), whose destructor then finds no
\* stamp (key: the stamp that destructor found attached)
DestroyStamp(s) ==
    /\ ~ub /\ stampLive[s]
    /\ IF DanglingDict(s)
       THEN Fault(Call("~MutationStamp", any_dictionary[s], Null, 0, 0, NoValue, s))
       ELSE /\ LET d   == any_dictionary[s]
                   del == stamp_dtor_deletes(s)
                   ms  == stamp_dtor_mutation_stamp(s)
               IN  /\ IF del
                      THEN \* delete any_dictionary: ~AnyDictionary runs on d
                           /\ Released(d)
                           /\ last' = Call("~MutationStamp", d, Null, ms[d], 1, NoValue, s)
                      ELSE /\ _mutation_stamp' = ms
                           /\ last' = Call("~MutationStamp", d, Null, 0, 0, NoValue, s)
                           /\ UNCHANGED <<dictLive, contents>>
            /\ stamp' = [stamp EXCEPT ![s] = 0]
            /\ stampLive' = [stampLive EXCEPT ![s] = FALSE]
            /\ any_dictionary' = [any_dictionary EXCEPT ![s] = Null]
            /\ owning' = [owning EXCEPT ![s] = FALSE]
            /\ seen' = [seen EXCEPT ![s] = 0]
            /\ dirty' = [dirty EXCEPT ![s] = FALSE]
            /\ UNCHANGED ub

\* ----------------------------------------------------- external handle
\* validate(handle): Stale if the counter is the terminal sentinel or no
\* longer the version the handle cached, Valid otherwise
validate(s) ==
    IF stamp[s] = -1 \/ stamp[s] # seen[s] THEN "Stale" ELSE "Valid"

\* the handle resolves its position in the watched container and caches
\* the counter it was built against (acquire, or re-resolving when stale)
HandleAcquire(s) ==
    /\ ~ub /\ stampLive[s] /\ any_dictionary[s] # Null
    /\ seen' = [seen EXCEPT ![s] = stamp[s]]
    /\ dirty' = [dirty EXCEPT ![s] = FALSE]
    /\ last' = Call("acquire", any_dictionary[s], Null, 0, stamp[s], NoValue, s)
    /\ UNCHANGED <<dictVars, stampVars, ub>>

\* the handle validates before it dereferences its cached position
HandleValidate(s) ==
    /\ ~ub /\ stampLive[s] /\ seen[s] # 0
    /\ last' = Call("validate", any_dictionary[s], Null, 0,
                    IF validate(s) = "Valid" THEN 1 ELSE 0, NoValue, s)
    /\ UNCHANGED <<dictVars, stampVars, handleVars, ub>>

\* ------------------------------------------------------ any_to_py
any_to_py_noSwap(d, top_level, s, e) ==
    /\ ~ub /\ dictLive[d]
    /\ IF top_level
       THEN /\ s \in FreeStamps /\ e \in FreeDicts
            /\ stampLive' = [stampLive EXCEPT ![s] = TRUE]
            /\ owning' = [owning EXCEPT ![s] = TRUE]
            /\ any_dictionary' = [any_dictionary EXCEPT ![s] = e]
            /\ dictLive' = [dictLive EXCEPT ![e] = TRUE]
            /\ _mutation_stamp' = [_mutation_stamp EXCEPT ![e] = s]
            /\ stamp' = [stamp EXCEPT ![s] = 1]
            /\ contents' = [contents EXCEPT ![e] = EmptyMap]
            /\ seen' = [seen EXCEPT ![s] = 0]
            /\ dirty' = [dirty EXCEPT ![s] = FALSE]
            /\ last' = Call("any_to_py_top", d, e, 0, 1, NoValue, s)
            /\ UNCHANGED ub
       ELSE /\ e = d /\ s = _mutation_stamp[d] /\ s # Null
            /\ last' = Call("any_to_py", d, Null, 0, 0, NoValue, s)
            /\ UNCHANGED <<dictVars, stampVars, handleVars, ub>>

\* the AnyDictionary entry of the any_to_py dispatch table, on the
\* dictionary d held by the any.  top_level: new AnyDictionaryProxy (a
\* stamp s made by the owning constructor, with its dictionary e), then
\* proxy->fetch_any_dictionary().swap(d); s is returned.  Otherwise the
\* stamp of d.get_or_create_mutation_stamp() is returned (ret: created)
any_to_py(d, top_level, s, e) ==
    /\ ~ub /\ dictLive[d]
    /\ IF top_level
       THEN /\ s \in FreeStamps /\ e \in FreeDicts
            /\ IF DanglingStamp(d)
               THEN Fault(Call("any_to_py_top", d, e, 0, 1, NoValue, s))
               ELSE /\ _mutation_stamp[d] # Null =>
                         stamp[_mutation_stamp[d]] + 1 <= MaxStamp
                    \* MutationStamp(): stamp 1, a new dictionary, owning
                    /\ stampLive' = [stampLive EXCEPT ![s] = TRUE]
                    /\ owning' = [owning EXCEPT ![s] = TRUE]
                    /\ any_dictionary' = [any_dictionary EXCEPT ![s] = e]
                    /\ dictLive' = [dictLive EXCEPT ![e] = TRUE]
                    /\ _mutation_stamp' = [_mutation_stamp EXCEPT ![e] = s]
                    \* e.swap(d): mutate() on e bumps s, other.mutate() the
                    \* stamp of d, map::swap exchanges the contents
                    /\ stamp' = mutate([stamp EXCEPT ![s] = 1 + 1], d)
                    /\ contents' = [contents EXCEPT ![e] = contents[d],
                                                    ![d] = EmptyMap]
                    /\ seen' = [seen EXCEPT ![s] = 0]
                    /\ dirty' = [Invalidated({d}) EXCEPT ![s] = FALSE]
                    /\ last' = Call("any_to_py_top", d, e, 0, 1, NoValue, s)
                    /\ UNCHANGED ub
       ELSE /\ e = d
            /\ IF _mutation_stamp[d] # Null
               THEN /\ s = _mutation_stamp[d]
                    /\ last' = Call("any_to_py", d, Null, 0, 0, NoValue, s)
                    /\ UNCHANGED <<dictVars, stampVars, handleVars, ub>>
               ELSE /\ s \in FreeStamps
                    /\ stampLive' = [stampLive EXCEPT ![s] = TRUE]
                    /\ stamp' = [stamp EXCEPT ![s] = 1]
                    /\ any_dictionary' = [any_dictionary EXCEPT ![s] = d]
                    /\ owning' = [owning EXCEPT ![s] = FALSE]
                    /\ _mutation_stamp' = [_mutation_stamp EXCEPT ![d] = s]
                    /\ seen' = [seen EXCEPT ![s] = 0]
                    /\ dirty' = [dirty EXCEPT ![s] = FALSE]
                    /\ last' = Call("any_to_py", d, Null, 0, 1, NoValue, s)
                    /\ UNCHANGED <<dictLive, contents, ub>>

\* ------------------------------------------------------ specification
\* one step of the program: any member call on any object, the keys drawn
\* from Ks and the values from Vs
Step(Ks, Vs) ==
    \/ \E d \in Dicts : Construct(d)
    \/ \E d, e \in Dicts : CopyConstruct(d, e)
    \/ \E d, e \in Dicts : MoveConstruct(d, e)
    \/ \E d \in Dicts : Destroy(d)
    \/ \E d, e \in Dicts : CopyAssign(d, e)
    \/ \E d, e \in Dicts : MoveAssign(d, e)
    \/ \E d \in Dicts, m \in UNION {[ks -> Vs] : ks \in SUBSET Ks} :
          InitListAssign(d, m)
    \/ \E d \in Dicts : Clear(d)
    \/ \E d \in Dicts, k \in Ks : EraseKey(d, k)
    \/ \E d \in Dicts, k \in Ks : ErasePos(d, k)
    \/ \E d \in Dicts, i, j \in 0..Cardinality(Ks) : EraseRange(d, i, j)
    \/ \E d, e \in Dicts : Swap(d, e)
    \/ \E d \in Dicts, k \in Ks, v \in Vs : Insert(d, k, v)
    \/ \E d \in Dicts, k \in Ks, v \in Vs : IndexAssign(d, k, v)
    \/ \E d \in Dicts, k \in Ks : Find(d, k)
    \/ \E d \in Dicts, k \in Ks, r \in Vs \cup {NullOut} : get_if_set(d, k, r)
    \/ \E d \in Dicts, k \in Ks, r \in Vs \cup {NullOut} : set_default(d, k, r)
    \/ \E d \in Dicts, s \in Stamps : get_or_create_mutation_stamp(d, s)
    \/ \E s \in Stamps, d \in Dicts : OwningStamp(s, d)
    \/ \E s \in Stamps : DestroyStamp(s)
    \/ \E s \in Stamps : HandleAcquire(s)
    \/ \E s \in Stamps : HandleValidate(s)
    \/ \E d, e \in Dicts, s \in Stamps, top_level \in BOOLEAN :
          any_to_py(d, top_level, s, e)

\* the stamp protocol: every operation, over one payload value
Next == Step(Keys, StampValues)

Spec == Init /\ [][Next]_vars

\* the map members on one dictionary, over typed values and several keys
\* (the dictionary of Init; its stamp may be attached meanwhile)
NumMapKeys == 2
MapKeys    == 1..NumMapKeys

NextMap ==
    \/ \E d \in Dicts, k \in MapKeys, v \in Values : Insert(d, k, v)
    \/ \E d \in Dicts, k \in MapKeys, v \in Values : IndexAssign(d, k, v)
    \/ \E d \in Dicts, k \in MapKeys : EraseKey(d, k)
    \/ \E d \in Dicts, k \in MapKeys : Find(d, k)
    \/ \E d \in Dicts, k \in MapKeys, r \in Values \cup {NullOut} :
          get_if_set(d, k, r)
    \/ \E d \in Dicts, k \in MapKeys, r \in Values \cup {NullOut} :
          set_default(d, k, r)
    \/ \E d \in Dicts, s \in Stamps : get_or_create_mutation_stamp(d, s)

SpecMap == Init /\ [][NextMap]_vars

\* ------------------------------------------------------------- claims
InvalidatingOps ==
    {"copy_assign", "move_assign", "ilist_assign", "clear", "erase_key",
     "erase_pos", "erase_range", "swap"}

NonInvalidatingOps == {"insert", "operator[]", "find", "get_if_set", "set_default"}

\* the dictionaries whose iterators the call c invalidates
Mutated(c) == IF c.op \in {"move_assign", "swap"} THEN {c.a, c.b} ELSE {c.a}

\* C1: every invalidating call raises the counter of the stamp attached to
\* each dictionary it invalidates by exactly 1, whatever its arguments (the
\* other operand of swap or move assignment being the same dictionary
\* included), so that the counter is 1 plus the number of such calls
C1_BumpExactlyOnce ==
    [][ last'.op \in InvalidatingOps =>
          \A d \in Mutated(last') :
             _mutation_stamp[d] # Null =>
                stamp'[_mutation_stamp[d]] = stamp[_mutation_stamp[d]] + 1 ]_vars

\* C2: destroying a dictionary with an attached, non-owning stamp leaves the
\* stamp with counter -1 and a null back-reference, and from then on every
\* validate on a handle of that stamp is Stale, whatever version it cached
C2_DestroyTombstones ==
    /\ [][ (last'.op = "~AnyDictionary" /\ last'.s # Null) =>
             /\ ~owning[last'.s]
             /\ stampLive'[last'.s]
             /\ stamp'[last'.s] = -1
             /\ any_dictionary'[last'.s] = Null ]_vars
    /\ [](\A s \in Stamps :
             (stampLive[s] /\ any_dictionary[s] = Null) =>
                (stamp[s] = -1 /\ validate(s) = "Stale"))
    /\ [](last.op = "validate" /\ any_dictionary[last.s] = Null => last.ret = 0)

C2_Witness ==
    /\ last.op = "validate" /\ last.ret = 0
    /\ stampLive[last.s] /\ stamp[last.s] = -1 /\ any_dictionary[last.s] = Null
    /\ seen[last.s] > 1

\* C3: the links between live dictionaries and live stamps are mutually
\* consistent and never dangle, and no call dereferenced a destroyed object
C3_LinksConsistent ==
    /\ ~ub
    /\ \A d \in Dicts :
         dictLive[d] =>
            \/ _mutation_stamp[d] = Null
            \/ /\ stampLive[_mutation_stamp[d]]
               /\ any_dictionary[_mutation_stamp[d]] = d
    /\ \A s \in Stamps :
         stampLive[s] =>
            \/ any_dictionary[s] = Null
            \/ /\ dictLive[any_dictionary[s]]
               /\ _mutation_stamp[any_dictionary[s]] = s
    /\ \A s \in Stamps :
         Cardinality({d \in Dicts : dictLive[d] /\ _mutation_stamp[d] = s}) <= 1

C3_Witness ==
    /\ last.op = "~MutationStamp" /\ last.ret = 0
    /\ last.a # Null /\ dictLive[last.a] /\ _mutation_stamp[last.a] = Null
    /\ \E s \in Stamps : stampLive[s] /\ stamp[s] = -1

\* C4: validate is Stale exactly when the watched dictionary was invalidated
\* (assignment, clear, erase, swap) or destroyed since the handle cached its
\* version, and Valid exactly when the counter is not -1 and is that version
C4_ValidateSound ==
    \A s \in Stamps :
       (stampLive[s] /\ seen[s] # 0) =>
          /\ validate(s) = "Stale" <=> dirty[s]
          /\ validate(s) = "Valid" <=> (stamp[s] # -1 /\ stamp[s] = seen[s])

C4_Witness ==
    /\ last.op = "validate" /\ last.ret = 0
    /\ stampLive[last.s] /\ stamp[last.s] > seen[last.s] /\ dirty[last.s]
    /\ \E s \in Stamps : s # last.s /\ stampLive[s] /\ seen[s] # 0 /\ ~dirty[s]
                         /\ stamp[s] > 1

\* C5 as stated: a.swap(b) on two distinct dictionaries with attached stamps
\* bumps both stamps and exchanges the attached-stamp pointers together
\* with the contents
C5_SwapExchangesStamps ==
    [][ (/\ last'.op = "swap" /\ last'.a # last'.b
         /\ _mutation_stamp[last'.a] # Null /\ _mutation_stamp[last'.b] # Null) =>
          LET a  == last'.a
              b  == last'.b
              sa == _mutation_stamp[a]
              sb == _mutation_stamp[b]
          IN  /\ stamp'[sa] > stamp[sa] /\ stamp'[sb] > stamp[sb]
              /\ contents'[a] = contents[b] /\ contents'[b] = contents[a]
              /\ _mutation_stamp'[b] = sa /\ any_dictionary'[sa] = b
              /\ _mutation_stamp'[a] = sb /\ any_dictionary'[sb] = a ]_vars

\* C5 amended: a.swap(b) on two distinct dictionaries with attached stamps
\* bumps both stamps by exactly 1 and exchanges the contents only: each
\* stamp stays attached to, and back-references, the dictionary it watched
C5_SwapKeepsStamps ==
    [][ (/\ last'.op = "swap" /\ last'.a # last'.b
         /\ _mutation_stamp[last'.a] # Null /\ _mutation_stamp[last'.b] # Null) =>
          LET a  == last'.a
              b  == last'.b
              sa == _mutation_stamp[a]
              sb == _mutation_stamp[b]
          IN  /\ stamp'[sa] = stamp[sa] + 1 /\ stamp'[sb] = stamp[sb] + 1
              /\ contents'[a] = contents[b] /\ contents'[b] = contents[a]
              /\ _mutation_stamp'[a] = sa /\ any_dictionary'[sa] = a
              /\ _mutation_stamp'[b] = sb /\ any_dictionary'[sb] = b ]_vars

C5_Witness ==
    /\ last.op = "swap" /\ last.a # last.b
    /\ _mutation_stamp[last.a] # Null /\ _mutation_stamp[last.b] # Null
    /\ contents[last.a] # contents[last.b]

\* C6 as stated: after a dictionary with an attached stamp was the source of
\* a move (assignment or construction), its stamp has counter -1 and a null
\* back-reference
C6_MovedFromTombstoned ==
    [][ (/\ last'.op \in {"move_assign", "move_construct"}
         /\ _mutation_stamp[last'.b] # Null) =>
          /\ stamp'[_mutation_stamp[last'.b]] = -1
          /\ any_dictionary'[_mutation_stamp[last'.b]] = Null ]_vars

\* C6 amended: a move does not tombstone the source's stamp.  After move
\* assignment the source's stamp is still attached to the source and its
\* counter was raised (by 1, by 2 when source and target are the same);
\* after move construction the source's stamp is unchanged; a counter
\* becomes -1 only by the destruction of the watched dictionary
C6_MovedFromStaysAttached ==
    /\ [][ (last'.op = "move_assign" /\ _mutation_stamp[last'.b] # Null) =>
             LET b  == last'.b
                 sb == _mutation_stamp[b]
             IN  /\ _mutation_stamp'[b] = sb /\ any_dictionary'[sb] = b
                 /\ stamp'[sb] = stamp[sb] + (IF last'.a = b THEN 2 ELSE 1) ]_vars
    /\ [][ (last'.op = "move_construct" /\ _mutation_stamp[last'.b] # Null) =>
             LET b  == last'.b
                 sb == _mutation_stamp[b]
             IN  /\ _mutation_stamp'[b] = sb /\ any_dictionary'[sb] = b
                 /\ stamp'[sb] = stamp[sb] ]_vars
    /\ [][ \A s \in Stamps :
              (stampLive[s] /\ stamp[s] # -1 /\ stamp'[s] = -1) =>
                 (last'.op = "~AnyDictionary" /\ last'.s = s) ]_vars

C6_Witness ==
    /\ last.op = "move_assign" /\ last.a # last.b
    /\ _mutation_stamp[last.b] # Null
    /\ stamp[_mutation_stamp[last.b]] = 2
    /\ any_dictionary[_mutation_stamp[last.b]] = last.b

\* C7: a tombstoned stamp stays tombstoned (counter -1, back-reference
\* null) until it is destroyed itself, and no dictionary is ever attached
\* to it, so no call bumps or reads through it
C7_TombstoneTerminal ==
    /\ [][ \A s \in Stamps :
              (stampLive[s] /\ stamp[s] = -1 /\ stampLive'[s]) =>
                 (stamp'[s] = -1 /\ any_dictionary'[s] = Null) ]_vars
    /\ [](\A s \in Stamps :
             (stampLive[s] /\ stamp[s] = -1) =>
                /\ any_dictionary[s] = Null
                /\ \A d \in Dicts : dictLive[d] => _mutation_stamp[d] # s)

C7_Witness ==
    /\ last.op = "get_or_create_mutation_stamp" /\ last.ret = 1
    /\ \E t \in Stamps : t # last.s /\ stampLive[t] /\ stamp[t] = -1
                         /\ any_dictionary[t] = Null

\* C8: get_or_create_mutation_stamp returns the attached stamp when there is
\* one and then changes nothing; otherwise it creates one in attached mode
\* (counter 1, back-reference to the dictionary, not owning) and stores it;
\* the stored pointer stays until that stamp or the dictionary is destroyed
C8_GetOrCreateIdempotent ==
    /\ [][ last'.op = "get_or_create_mutation_stamp" =>
             LET a == last'.a
                 s == last'.s
             IN  IF _mutation_stamp[a] # Null
                 THEN /\ s = _mutation_stamp[a] /\ last'.ret = 0
                      /\ UNCHANGED <<dictVars, stampVars>>
                 ELSE /\ ~stampLive[s] /\ stampLive'[s] /\ last'.ret = 1
                      /\ stamp'[s] = 1 /\ any_dictionary'[s] = a /\ ~owning'[s]
                      /\ _mutation_stamp'[a] = s
                      /\ contents' = contents ]_vars
    /\ [][ \A d \in Dicts :
              (/\ dictLive[d] /\ _mutation_stamp[d] # Null
               /\ ~(last'.op = "~MutationStamp" /\ last'.s = _mutation_stamp[d])
               /\ ~(last'.op = "~AnyDictionary" /\ last'.a = d)) =>
                 _mutation_stamp'[d] = _mutation_stamp[d] ]_vars

C8_Witness ==
    /\ last.op = "get_or_create_mutation_stamp" /\ last.ret = 0
    /\ _mutation_stamp[last.a] = last.s
    /\ stamp[last.s] > 1

C11_StampDestructionByMode ==
    /\ [][ last'.op = "~MutationStamp" =>
             LET s == last'.s
                 d == any_dictionary[s]
             IN  /\ stampLive[s] /\ ~stampLive'[s]
                 /\ \A t \in Stamps \ {s} :
                       /\ stampLive'[t] = stampLive[t] /\ stamp'[t] = stamp[t]
                       /\ any_dictionary'[t] = any_dictionary[t]
                 /\ \A e \in Dicts \ {d} :
                       /\ dictLive'[e] = dictLive[e] /\ contents'[e] = contents[e]
                       /\ _mutation_stamp'[e] = _mutation_stamp[e]
                 /\ (d # Null /\ owning[s]) =>
                       (dictLive[d] /\ ~dictLive'[d] /\ last'.ret = 1 /\ last'.key = Null)
                 /\ (d # Null /\ ~owning[s]) =>
                       /\ dictLive[d] /\ dictLive'[d] /\ last'.ret = 0
                       /\ contents'[d] = contents[d]
                       /\ _mutation_stamp'[d] = Null ]_vars
    /\ [][ last'.op \in InvalidatingOps =>
             \A s \in Stamps :
                (stamp'[s] # stamp[s] \/ any_dictionary'[s] # any_dictionary[s]) =>
                   \E d \in Mutated(last') : _mutation_stamp[d] = s ]_vars
    /\ [][ (/\ last'.op = "get_or_create_mutation_stamp"
            /\ _mutation_stamp[last'.a] = Null) =>
             /\ ~stampLive[last'.s] /\ stampLive'[last'.s]
             /\ stamp'[last'.s] = 1
             /\ _mutation_stamp'[last'.a] = last'.s ]_vars

C11_Witness ==
    /\ last.op = "~MutationStamp" /\ last.ret = 0
    /\ last.a # Null /\ dictLive[last.a] /\ _mutation_stamp[last.a] = Null
    /\ contents[last.a] # EmptyMap
    /\ \E s \in Stamps : stampLive[s] /\ owning[s]

\* C12: set_default with a non-null slot of type T returns true, hands the
\* stored value to the caller and leaves the map unchanged when the key is
\* present with a value of type T; otherwise (key absent, or present with a
\* value of another type) it returns false and the map then holds the
\* caller's value at that key
C12_SetDefaultReadOrInit ==
    [][ (last'.op = "set_default" /\ last'.arg # NullOut) =>
          LET a == last'.a
              k == last'.key
              v == last'.arg
              m == contents[a]
          IN  IF k \in DOMAIN m /\ m[k].type = v.type
              THEN /\ last'.ret = 1 /\ last'.out = m[k]
                   /\ contents' = contents
              ELSE /\ last'.ret = 0
                   /\ k \in DOMAIN contents'[a]
                   /\ contents'[a][k] = v ]_vars

\* C13: set_default on an absent key returns false, adds exactly that key
\* with the caller's value and changes no other entry; a following
\* set_default on that key with another value of the same type returns
\* true, leaves the stored value and hands it to the caller
C13_SetDefaultTwice ==
    /\ [][ (/\ last'.op = "set_default" /\ last'.arg # NullOut
            /\ last'.key \notin DOMAIN contents[last'.a]) =>
             LET a == last'.a
                 k == last'.key
             IN  /\ last'.ret = 0 /\ last'.out = last'.arg
                 /\ DOMAIN contents'[a] = DOMAIN contents[a] \cup {k}
                 /\ contents'[a][k] = last'.arg
                 /\ \A x \in DOMAIN contents[a] : contents'[a][x] = contents[a][x]
                 /\ \A e \in Dicts \ {a} : contents'[e] = contents[e] ]_vars
    /\ [][ (/\ last.op = "set_default" /\ last.ret = 0 /\ last.arg # NullOut
            /\ last.key \in DOMAIN contents[last.a]
            /\ contents[last.a][last.key] = last.arg
            /\ last'.op = "set_default" /\ last'.a = last.a /\ last'.key = last.key
            /\ last'.arg # NullOut /\ last'.arg # last.arg
            /\ last'.arg.type = last.arg.type) =>
             /\ last'.ret = 1
             /\ contents' = contents
             /\ last'.out = last.arg ]_vars

C13_Witness ==
    /\ last.op = "set_default" /\ last.ret = 1
    /\ last.arg # NullOut /\ last.out # last.arg /\ last.out.type = last.arg.type
    /\ contents[last.a][last.key] = last.out
    /\ DOMAIN contents[last.a] = MapKeys

\* C14: get_if_set with a non-null slot returns true exactly when the key
\* is present with a value of the slot's type; on true the slot holds the
\* stored value, on false it is unmodified; the map and the stamps are
\* unchanged either way
C14_GetIfSet ==
    [][ (last'.op = "get_if_set" /\ last'.arg # NullOut) =>
          LET a == last'.a
              k == last'.key
              m == contents[a]
              found == k \in DOMAIN m /\ m[k].type = last'.arg.type
          IN  /\ last'.ret = 1 <=> found
              /\ found => last'.out = m[k]
              /\ ~found => last'.out = last'.arg
              /\ contents' = contents
              /\ UNCHANGED <<stampVars, _mutation_stamp>> ]_vars

C14_Witness ==
    /\ last.op = "get_if_set" /\ last.ret = 0 /\ last.arg # NullOut
    /\ last.key \in DOMAIN contents[last.a]
    /\ contents[last.a][last.key].type # last.arg.type
    /\ last.out = last.arg
    /\ _mutation_stamp[last.a] # Null

\* C15: get_if_set and set_default with a null slot return false and leave
\* the map and the attached stamp unchanged, the key present or not
C15_NullSlot ==
    [][ (last'.op \in {"get_if_set", "set_default"} /\ last'.arg = NullOut) =>
          /\ last'.ret = 0
          /\ contents' = contents
          /\ UNCHANGED <<stampVars, _mutation_stamp>> ]_vars

C15_Witness ==
    /\ last.op = "set_default" /\ last.arg = NullOut /\ last.ret = 0
    /\ last.key \notin DOMAIN contents[last.a]
    /\ contents[last.a] # EmptyMap
    /\ _mutation_stamp[last.a] # Null

\* C16: as the class documentation states, every insert on a dictionary
\* with an attached stamp increases the stamp's counter
C16_InsertBumps ==
    [][ (last'.op = "insert" /\ _mutation_stamp[last'.a] # Null) =>
          stamp'[_mutation_stamp[last'.a]] > stamp[_mutation_stamp[last'.a]] ]_vars

\* C17: for every live stamp the counter is -1 exactly when the
\* back-reference is null; while the back-reference is non-null the counter
\* is at least 1 and never decreases; the counter starts at 1 in both
\* construction modes; the ownership flag is set at construction, true only
\* for a stamp that allocated its own dictionary, and never changes
C17_StampInvariants ==
    /\ [](\A s \in Stamps :
             stampLive[s] =>
                /\ stamp[s] = -1 <=> any_dictionary[s] = Null
                /\ any_dictionary[s] # Null => stamp[s] >= 1)
    /\ [][ \A s \in Stamps :
              /\ (/\ stampLive[s] /\ stampLive'[s]
                  /\ any_dictionary[s] # Null /\ any_dictionary'[s] # Null) =>
                    stamp'[s] >= stamp[s]
              /\ (stampLive[s] /\ stampLive'[s]) => owning'[s] = owning[s]
              /\ (~stampLive[s] /\ stampLive'[s]) =>
                    /\ last'.s = s
                    \* the conversion bumps its new stamp once by its swap
                    /\ stamp'[s] = IF last'.op = "any_to_py_top" THEN 2 ELSE 1
                    /\ owning'[s] <=> last'.op \in {"MutationStamp", "any_to_py_top"}
                    /\ owning'[s] => ~dictLive[any_dictionary'[s]]
                    /\ ~owning'[s] => dictLive[any_dictionary'[s]] ]_vars

C17_Witness ==
    \E s, t \in Stamps :
       /\ stampLive[s] /\ owning[s] /\ stamp[s] = 3 /\ last.op = "swap"
       /\ stampLive[t] /\ ~owning[t] /\ stamp[t] = -1

\* C18: move assignment on two distinct live dictionaries is a copy that
\* also bumps the source: the target's contents are the source's, the
\* source's contents are unchanged, both keep their stamp pointers and
\* each attached stamp was incremented by exactly 1 and is still attached
C18_MoveAssignCopies ==
    [][ (last'.op = "move_assign" /\ last'.a # last'.b) =>
          LET a == last'.a
              b == last'.b
          IN  /\ contents'[a] = contents[b]
              /\ contents'[b] = contents[b]
              /\ _mutation_stamp' = _mutation_stamp
              /\ \A x \in {a, b} :
                    _mutation_stamp[x] # Null =>
                       /\ stamp'[_mutation_stamp[x]] = stamp[_mutation_stamp[x]] + 1
                       /\ any_dictionary'[_mutation_stamp[x]] = x ]_vars

C18_Witness ==
    /\ last.op = "move_assign" /\ last.a # last.b
    /\ _mutation_stamp[last.a] # Null /\ _mutation_stamp[last.b] # Null
    /\ contents[last.b] # EmptyMap /\ contents[last.a] = contents[last.b]
    /\ stamp[_mutation_stamp[last.a]] = 3

\* C19: the conversion of a dictionary at top level creates a new owning
\* stamp with its own dictionary and swaps contents with the source: the
\* returned stamp's dictionary holds the source's former contents, the
\* source is empty, the returned stamp is not the source's and both
\* attached stamps were bumped; below top level it returns the stamp of
\* get_or_create_mutation_stamp and changes neither contents nor counters
C19_AnyToPy ==
    /\ [][ last'.op = "any_to_py_top" =>
             LET d  == last'.a
                 e  == last'.b
                 s  == last'.s
                 sd == _mutation_stamp[d]
             IN  /\ ~stampLive[s] /\ ~dictLive[e] /\ s # sd
                 /\ stampLive'[s] /\ owning'[s] /\ dictLive'[e]
                 /\ any_dictionary'[s] = e /\ _mutation_stamp'[e] = s
                 /\ contents'[e] = contents[d] /\ contents'[d] = EmptyMap
                 /\ stamp'[s] = 2
                 /\ _mutation_stamp'[d] = sd
                 /\ sd # Null =>
                      (stamp'[sd] = stamp[sd] + 1 /\ any_dictionary'[sd] = d) ]_vars
    /\ [][ last'.op = "any_to_py" =>
             LET d == last'.a
                 s == last'.s
             IN  /\ _mutation_stamp'[d] = s /\ any_dictionary'[s] = d
                 /\ contents' = contents
                 /\ \A t \in Stamps : stampLive[t] => stamp'[t] = stamp[t]
                 /\ IF _mutation_stamp[d] # Null
                    THEN s = _mutation_stamp[d] /\ last'.ret = 0
                         /\ UNCHANGED <<dictVars, stampVars>>
                    ELSE ~stampLive[s] /\ last'.ret = 1
                         /\ stamp'[s] = 1 /\ ~owning'[s] ]_vars

C19_Witness ==
    /\ last.op = "any_to_py_top"
    /\ _mutation_stamp[last.a] # Null /\ _mutation_stamp[last.a] # last.s
    /\ stamp[_mutation_stamp[last.a]] = 3
    /\ contents[last.b] # EmptyMap /\ contents[last.a] = EmptyMap
    /\ owning[last.s] /\ stamp[last.s] = 2

====
